---- MODULE Spec2Model ----
(***************************************************************************)
(* Model of scipy/sparse/linalg/dsolve/linsolve.py: the dispatch of sparse *)
(* solves and LU factorizations to UMFPACK or SuperLU.                     *)
(*                                                                         *)
(* The native kernels are opaque: a call of a backend entry point is       *)
(* recorded (entry point, matrix handed over, format flag) and its         *)
(* numerical result is not modelled.  A call of one of the module's        *)
(* functions is one action; the record `last` is the frame of that call    *)
(* (inputs, warnings emitted, backend calls made, how it ended) and is     *)
(* discarded when the caller takes the result (Return).                    *)
(***************************************************************************)
EXTENDS Integers, Sequences, FiniteSets, TLC

\* ---- bounds of the model ------------------------------------------------
MaxDim == 2     \* matrix dimensions range over 1..MaxDim, rhs dimensions over 0..MaxDim
MaxRank == 2    \* a dense rhs has 1..MaxRank dimensions
MaxSolves == 2  \* calls of one closure returned by factorized

\* ---- values ---------------------------------------------------------------
Formats == {"csc", "csr", "coo"}
\* numpy dtype.char: 'b' int8, 'l' integer, 'f' float32, 'd' float64, 'D' complex128
DtypeChars == {"b", "l", "f", "d", "D"}
Matrices == [fmt : Formats, M : 1..MaxDim, N : 1..MaxDim, dtype : DtypeChars]
NoMatrix == [fmt |-> "none", M |-> 0, N |-> 0, dtype |-> "-"]

Shapes == UNION {[1..r -> 0..MaxDim] : r \in 1..MaxRank}
\* a sparse matrix is always two-dimensional
Rhs == [sparse : {FALSE}, shape : Shapes] \cup [sparse : {TRUE}, shape : [1..2 -> 1..MaxDim]]
NoRhs == [sparse |-> FALSE, shape |-> <<>>]

KwNames == {"useUmfpack", "assumeSortedIndices", "strategy"}
Kwargs == UNION {[K -> BOOLEAN] : K \in SUBSET KwNames}
NoKwargs == [k \in {} |-> TRUE]

VARIABLES isUmfpack, noScikit, useUmfpack, solver, last
vars == <<isUmfpack, noScikit, useUmfpack, solver, last>>

\* ---- numpy / scipy.sparse helpers as linsolve.py uses them ----------------
isspmatrix(b) == b.sparse

toarray(b) == [sparse |-> FALSE, shape |-> b.shape]

ndim(b) == Len(b.shape)

RECURSIVE size(_)
size(shape) == IF shape = <<>> THEN 1 ELSE Head(shape) * size(Tail(shape))

RECURSIVE maxshape(_)
maxshape(shape) ==
    IF Len(shape) = 1 THEN Head(shape)
    ELSE LET m == maxshape(Tail(shape)) IN IF Head(shape) > m THEN Head(shape) ELSE m

isnotone(d) == d # 1

squeeze(b) == [b EXCEPT !.shape = SelectSeq(@, isnotone)]

isspmatrix_csc(A) == A.fmt = "csc"

isspmatrix_csr(A) == A.fmt = "csr"

csc_matrix(A) == [A EXCEPT !.fmt = "csc"]

\* upcast to the first of 'f', 'd', 'D' that holds the dtype; floating dtypes are kept
asfptype(A) ==
    [A EXCEPT !.dtype = IF @ \in {"f", "d", "D"} THEN @ ELSE IF @ = "b" THEN "f" ELSE "d"]

\* "fmt" % args succeeds iff the tuple has as many items as fmt has specifiers
PercentFormat(nspec, nargs) == nspec = nargs

\* ---- results of a call ------------------------------------------------------
BackendCall(entry, A, flag) == [entry |-> entry, A |-> A, flag |-> flag]

Outcome(how, msg, warnings, backend, coerced, rhs) ==
    [outcome |-> how, msg |-> msg, warnings |-> warnings, backend |-> backend,
     coerced |-> coerced, rhs |-> rhs]

Raise(fmtOk, msg, warnings, coerced, rhs) ==
    IF fmtOk THEN Outcome("ValueError", msg, warnings, <<>>, coerced, rhs)
    ELSE Outcome("TypeError", "not all arguments converted during string formatting",
                 warnings, <<>>, coerced, rhs)

\* ---- use_solver ---------------------------------------------------------------
use_solver_resets(kwargs, current) ==
    IF "useUmfpack" \in DOMAIN kwargs THEN kwargs["useUmfpack"] ELSE TRUE

use_solver_preference(kwargs, current) ==
    IF "useUmfpack" \in DOMAIN kwargs THEN kwargs["useUmfpack"] ELSE current

configure_calls(available, kwargs) == IF available THEN <<kwargs>> ELSE <<>>

\* ---- backend selection ---------------------------------------------------------
umfpack_if_available(available, preferred) == available

umfpack_selected(available, preferred) == available /\ preferred

\* ---- spsolve ----------------------------------------------------------------------
rhs_any_shape(b) == TRUE

rhs_is_vector(b) == maxshape(b.shape) = size(b.shape)

csc_only(A) == ~ isspmatrix_csc(A)

needs_conversion(A) == ~ (isspmatrix_csc(A) \/ isspmatrix_csr(A))

gssv_flag(A) == IF isspmatrix_csc(A) THEN 1 ELSE 0

is_double(A) == A.dtype \in {"d", "D"}

deprecation(noSk) == IF noSk THEN <<"DeprecationWarning">> ELSE <<>>

spsolve_result(A, b, available, preferred, noSk) ==
    LET b1 == IF isspmatrix(b) THEN toarray(b) ELSE b
        \* lines 50-54
        rejected == ndim(b1) > 1 /\ ~ rhs_is_vector(b1)
        b2 == IF ndim(b1) > 1 THEN squeeze(b1) ELSE b1
        \* lines 56-61
        conv == needs_conversion(A)
        w1 == IF conv THEN <<"SparseEfficiencyWarning">> ELSE <<>>
        A1 == asfptype(IF conv THEN csc_matrix(A) ELSE A)
    IN
    IF rejected THEN Raise(PercentFormat(1, 1), "rhs must be a vector", <<>>, NoMatrix, b1)
    ELSE IF A1.M # A1.N THEN Raise(PercentFormat(1, 2), "matrix must be square", w1, A1, b2)
    ELSE IF A1.M # size(b2.shape)
        THEN Raise(PercentFormat(2, 2), "matrix - rhs size mismatch", w1, A1, b2)
    ELSE IF umfpack_selected(available, preferred)
        THEN LET w2 == w1 \o deprecation(noSk) IN
             IF ~ is_double(A1)
             THEN Raise(TRUE, "convert matrix data to double", w2, A1, b2)
             ELSE Outcome("return", "", w2, <<BackendCall("umf.linsolve", A1, -1)>>, A1, b2)
    ELSE Outcome("return", "", w1, <<BackendCall("gssv", A1, gssv_flag(A1))>>, A1, b2)

\* ---- splu ---------------------------------------------------------------------------
splu_result(A) ==
    LET conv == ~ isspmatrix_csc(A)
        w1 == IF conv THEN <<"SparseEfficiencyWarning">> ELSE <<>>
        A1 == asfptype(IF conv THEN csc_matrix(A) ELSE A)
    IN
    IF A1.M # A1.N THEN Raise(TRUE, "can only factor square matrices", w1, A1, NoRhs)
    ELSE Outcome("return", "", w1, <<BackendCall("gstrf", A1, -1)>>, A1, NoRhs)

\* ---- factorized ------------------------------------------------------------------------
factorized_result(A, available, preferred, noSk) ==
    IF umfpack_selected(available, preferred)
    THEN LET w0 == deprecation(noSk)
             conv == ~ isspmatrix_csc(A)
             w1 == IF conv THEN w0 \o <<"SparseEfficiencyWarning">> ELSE w0
             A1 == asfptype(IF conv THEN csc_matrix(A) ELSE A)
         IN
         IF ~ is_double(A1) THEN Raise(TRUE, "convert matrix data to double", w1, A1, NoRhs)
         ELSE Outcome("return", "", w1, <<BackendCall("umf.numeric", A1, -1)>>, A1, NoRhs)
    ELSE splu_result(A)

\* the backend whose factors a closure returned by factorized holds
factorized_backend(available, preferred) ==
    IF umfpack_selected(available, preferred) THEN "umfpack" ELSE "superlu"

\* what one call of the closure invokes
solve_refactors(backend) ==
    IF backend = "umfpack" THEN <<"umf.numeric", "umf.solve">> ELSE <<"gstrf", "lu.solve">>

solve_calls(backend) ==
    IF backend = "umfpack" THEN <<"umf.solve">> ELSE <<"lu.solve">>

Factorizations == {"umf.numeric", "gstrf"}

isfactorization(c) == c.entry \in Factorizations

NoSolver == [backend |-> "none", factorizations |-> 0, solves |-> 0]

\* ---- state ---------------------------------------------------------------------------------
Frame(op, A, b, kw, r, before, conf) ==
    [op |-> op, A |-> A, b |-> b, kw |-> kw, outcome |-> r.outcome, msg |-> r.msg,
     warnings |-> r.warnings, backend |-> r.backend, coerced |-> r.coerced, rhs |-> r.rhs,
     useBefore |-> before, configure |-> conf]

Idle ==
    Frame("none", NoMatrix, NoRhs, NoKwargs,
          Outcome("none", "", <<>>, <<>>, NoMatrix, NoRhs), TRUE, <<>>)

Init ==
    /\ isUmfpack \in BOOLEAN
    /\ noScikit \in BOOLEAN
    /\ useUmfpack = TRUE
    /\ solver = NoSolver
    /\ last = Idle

use_solver ==
    /\ last.op = "none"
    /\ \E kwargs \in Kwargs :
        /\ useUmfpack' = use_solver_preference(kwargs, useUmfpack)
        /\ last' = Frame("use_solver", NoMatrix, NoRhs, kwargs,
                         Outcome("return", "", <<>>, <<>>, NoMatrix, NoRhs),
                         useUmfpack, configure_calls(isUmfpack, kwargs))
    /\ UNCHANGED <<isUmfpack, noScikit, solver>>

spsolve ==
    /\ last.op = "none"
    /\ \E A \in Matrices, b \in Rhs :
        last' = Frame("spsolve", A, b, NoKwargs,
                      spsolve_result(A, b, isUmfpack, useUmfpack, noScikit), useUmfpack, <<>>)
    /\ UNCHANGED <<isUmfpack, noScikit, useUmfpack, solver>>

splu ==
    /\ last.op = "none"
    /\ \E A \in Matrices :
        last' = Frame("splu", A, NoRhs, NoKwargs, splu_result(A), useUmfpack, <<>>)
    /\ UNCHANGED <<isUmfpack, noScikit, useUmfpack, solver>>

\* solve = factorized(A): `solver` is the closure most recently returned
factorized ==
    /\ last.op = "none"
    /\ \E A \in Matrices :
        LET r == factorized_result(A, isUmfpack, useUmfpack, noScikit) IN
        /\ last' = Frame("factorized", A, NoRhs, NoKwargs, r, useUmfpack, <<>>)
        /\ solver' = IF r.outcome = "return"
                     THEN [backend |-> factorized_backend(isUmfpack, useUmfpack),
                           factorizations |-> Len(SelectSeq(r.backend, isfactorization)),
                           solves |-> 0]
                     ELSE solver
    /\ UNCHANGED <<isUmfpack, noScikit, useUmfpack>>

\* solve(b): the closure hands b to the backend as it is
solve ==
    /\ last.op = "none"
    /\ solver.backend # "none"
    /\ solver.solves < MaxSolves
    /\ \E b \in Rhs :
        LET entries == solve_calls(solver.backend)
            calls == [i \in 1..Len(entries) |-> BackendCall(entries[i], NoMatrix, -1)]
        IN
        /\ last' = Frame("solve", NoMatrix, b, NoKwargs,
                         Outcome("return", "", <<>>, calls, NoMatrix, b), useUmfpack, <<>>)
        /\ solver' = [solver EXCEPT
                         !.factorizations = @ + Len(SelectSeq(calls, isfactorization)),
                         !.solves = @ + 1]
    /\ UNCHANGED <<isUmfpack, noScikit, useUmfpack>>

\* the caller takes the result (or the exception) and the frame is gone
Return ==
    /\ last.op # "none"
    /\ last' = Idle
    /\ UNCHANGED <<isUmfpack, noScikit, useUmfpack, solver>>

Next ==
    \/ use_solver
    \/ spsolve
    \/ splu
    \/ factorized
    \/ solve
    \/ Return

Spec == Init /\ [][Next]_vars

\* ---- what the claims speak of ---------------------------------------------------------------
DelegatingEntries == {"umf.linsolve", "umf.numeric", "gssv", "gstrf"}

Double == {"d", "D"}

isefficiencywarning(w) == w = "SparseEfficiencyWarning"

EfficiencyWarnings == Len(SelectSeq(last.warnings, isefficiencywarning))

FactorizationsInCall == Len(SelectSeq(last.backend, isfactorization))

\* the right-hand side passes lines 47-54 of spsolve
RhsPasses == Len(last.b.shape) > 1 => maxshape(last.b.shape) = size(last.b.shape)

LongDims(shape) == {i \in 1..Len(shape) : shape[i] > 1}

\* C1: a spsolve call that passes validation invokes exactly one backend, UMFPACK
\* (umf.linsolve) iff UMFPACK is available and the preference is true, SuperLU (gssv)
\* in every other case; a call that does not pass invokes none.  The preference is the
\* value of the most recent use_solver call that passed useUmfpack: use_solver stores
\* the passed value, and no other operation changes it.
BackendSelection ==
    /\ (last.op = "spsolve" /\ last.outcome = "return") =>
          /\ Len(last.backend) = 1
          /\ (last.backend[1].entry = "umf.linsolve") <=> (isUmfpack /\ useUmfpack)
          /\ (last.backend[1].entry = "gssv") <=> ~ (isUmfpack /\ useUmfpack)
    /\ (last.op = "spsolve" /\ last.outcome # "return") => last.backend = <<>>
    /\ (last.op = "use_solver" /\ "useUmfpack" \in DOMAIN last.kw) =>
          useUmfpack = last.kw["useUmfpack"]
    /\ last.op \in {"spsolve", "splu", "factorized", "solve"} => useUmfpack = last.useBefore

\* C1 witness: UMFPACK is available, use_solver(useUmfpack=False) was called, and spsolve
\* went to SuperLU
BackendSelectionWitness ==
    /\ last.op = "spsolve" /\ last.outcome = "return"
    /\ isUmfpack /\ ~ useUmfpack
    /\ last.backend[1].entry = "gssv"

\* C2: factorized(A), when it returns, has factorized exactly once (umf.numeric on the
\* UMFPACK path, gstrf on the SuperLU path); every later call of the returned closure
\* invokes the backend's solve only and no factorization, so the closure's factors have
\* been computed exactly once however often it is called.
FactorizedOnce ==
    /\ solver.backend # "none" => solver.factorizations = 1
    /\ (last.op = "factorized" /\ last.outcome = "return") =>
          /\ Len(last.backend) = 1
          /\ last.backend[1].entry = (IF solver.backend = "umfpack" THEN "umf.numeric" ELSE "gstrf")
          /\ solver.backend = (IF isUmfpack /\ useUmfpack THEN "umfpack" ELSE "superlu")
    /\ last.op = "solve" =>
          /\ FactorizationsInCall = 0
          /\ Len(last.backend) = 1
          /\ last.backend[1].entry = (IF solver.backend = "umfpack" THEN "umf.solve" ELSE "lu.solve")

\* C2 witness: the second call of an UMFPACK closure, made after the preference was
\* switched to SuperLU
FactorizedOnceWitness ==
    /\ last.op = "solve"
    /\ solver.solves >= 2
    /\ solver.backend = "umfpack"
    /\ ~ useUmfpack

\* C3: no backend entry point (umf.linsolve, umf.numeric, gssv, gstrf) is invoked with a
\* matrix whose row count differs from its column count.
SquareBeforeDelegating ==
    \A i \in 1..Len(last.backend) :
        last.backend[i].entry \in DelegatingEntries => last.backend[i].A.M = last.backend[i].A.N

\* C4: spsolve(A, b) with a non-square A ends with a ValueError, the one reporting that
\* the matrix must be square when the right-hand side got past its own validation, and
\* with no other exception type and no result.
NonSquareRaisesValueError ==
    (last.op = "spsolve" /\ last.A.M # last.A.N) =>
        /\ last.outcome = "ValueError"
        /\ RhsPasses => last.msg = "matrix must be square"

\* C5 as stated: in every spsolve call a CSC or CSR matrix keeps its format with no
\* SparseEfficiencyWarning, a matrix in any other format is converted to CSC with exactly
\* one SparseEfficiencyWarning, and gssv gets flag 1 exactly for CSC and 0 exactly for CSR.
FormatCoercionAlways ==
    last.op = "spsolve" =>
        /\ last.A.fmt \in {"csc", "csr"} => EfficiencyWarnings = 0
        /\ last.A.fmt \notin {"csc", "csr"} =>
              (last.coerced.fmt = "csc" /\ EfficiencyWarnings = 1)
        /\ \A i \in 1..Len(last.backend) :
              last.backend[i].entry = "gssv" =>
                  /\ last.backend[i].flag = 1 <=> last.backend[i].A.fmt = "csc"
                  /\ last.backend[i].flag = 0 <=> last.backend[i].A.fmt = "csr"

\* C5 amended: in a spsolve call whose right-hand side passes validation, a CSC or CSR
\* matrix keeps its format with no SparseEfficiencyWarning, a matrix in any other format is
\* converted to CSC with exactly one SparseEfficiencyWarning, the backend gets the matrix
\* so coerced, and gssv gets flag 1 exactly when that matrix is CSC and 0 exactly when CSR.
FormatCoercion ==
    (last.op = "spsolve" /\ RhsPasses) =>
        /\ last.A.fmt \in {"csc", "csr"} =>
              (last.coerced.fmt = last.A.fmt /\ EfficiencyWarnings = 0)
        /\ last.A.fmt \notin {"csc", "csr"} =>
              (last.coerced.fmt = "csc" /\ EfficiencyWarnings = 1)
        /\ \A i \in 1..Len(last.backend) :
              /\ last.backend[i].A = last.coerced
              /\ last.backend[i].entry = "gssv" =>
                    /\ last.backend[i].flag \in {0, 1}
                    /\ last.backend[i].flag = 1 <=> last.backend[i].A.fmt = "csc"
                    /\ last.backend[i].flag = 0 <=> last.backend[i].A.fmt = "csr"

\* C5 witness: a CSR matrix went to gssv as CSR with flag 0 and no warning
FormatCoercionWitness ==
    /\ last.op = "spsolve" /\ last.outcome = "return"
    /\ last.A.fmt = "csr"
    /\ last.backend[1].entry = "gssv"
    /\ last.backend[1].A.fmt = "csr"
    /\ last.backend[1].flag = 0
    /\ EfficiencyWarnings = 0

\* C6: use_solver without the keyword useUmfpack leaves the preference as it was, whatever
\* other keywords it carries; with the keyword the preference is the passed value; and
\* umfpack.configure is called only by use_solver and only when UMFPACK is available.
UseSolverFrame ==
    /\ (last.op = "use_solver" /\ "useUmfpack" \notin DOMAIN last.kw) =>
          useUmfpack = last.useBefore
    /\ (last.op = "use_solver" /\ useUmfpack # last.useBefore) =>
          ("useUmfpack" \in DOMAIN last.kw /\ useUmfpack = last.kw["useUmfpack"])
    /\ last.configure # <<>> => (last.op = "use_solver" /\ isUmfpack)

\* C6 witness: the preference is False and a use_solver call with other keywords only
\* left it False
UseSolverFrameWitness ==
    /\ last.op = "use_solver"
    /\ DOMAIN last.kw = {"assumeSortedIndices", "strategy"}
    /\ ~ last.useBefore
    /\ ~ useUmfpack

DoubleRequired ==
    (/\ last.op \in {"spsolve", "factorized"}
     /\ isUmfpack /\ last.useBefore
     /\ asfptype(last.A).dtype \notin Double) =>
        /\ last.outcome = "ValueError"
        /\ last.backend = <<>>
        /\ useUmfpack = last.useBefore

\* C8 for the calls that reach the dtype test (spsolve: the right-hand side is a vector, A
\* is square and of the size of b): the ValueError is the one asking for double data.
DoubleRequiredWhenReached ==
    (/\ last.op \in {"spsolve", "factorized"}
     /\ isUmfpack /\ last.useBefore
     /\ asfptype(last.A).dtype \notin Double
     /\ last.op = "spsolve" =>
           (RhsPasses /\ last.A.M = last.A.N /\ last.A.M = size(last.b.shape))) =>
        /\ last.outcome = "ValueError"
        /\ last.msg = "convert matrix data to double"
        /\ last.backend = <<>>
        /\ useUmfpack = last.useBefore


====
